---- MODULE Spec2Model ----
(***************************************************************************)
(* Model of app.py, the Streamlit script of the ecommerce consumer         *)
(* behaviour dashboard.  One run of the script is a straight line of       *)
(* steps: load_data, the Purchase_Amount normalisation, the sidebar        *)
(* filters, the KPI cards, the overview tab, the profile select boxes and  *)
(* the "Get My Insights" handler.  A run ends in "done", in "stopped"      *)
(* (st.stop) or in "fault" (an uncaught Python exception).                 *)
(*                                                                         *)
(* Numbers: amounts and frequencies are integers; a mean is kept as the    *)
(* exact fraction [num, den] (den = 0 is pandas' NaN), so comparisons of   *)
(* means are exact and float rounding is not modelled.                     *)
(***************************************************************************)
EXTENDS Integers, Sequences, FiniteSets

VARIABLES
    fileExists,   \* Path(csv_path).exists()
    csv,          \* the rows pd.read_csv would produce (raw cells)
    columns,      \* the column names of the file
    pc,           \* position of the script run
    fault,        \* the uncaught exception that ended the run, or "none"
    messages,     \* what st.error / st.warning / st.success / st.info showed
    df,           \* the loaded table
    selection,    \* the four sidebar multiselects
    filtered_df,  \* the table after the sidebar filters
    kpi,          \* the four metric cards
    category_rev, \* revenue by Purchase_Category, as charted
    profile,      \* the select boxes of the insights section and the button
    user_segment, \* the rows the insights are computed over
    insights      \* the statistics and the recommendation of the handler

vars == <<fileExists, csv, columns, pc, fault, messages, df, selection,
          filtered_df, kpi, category_rev, profile, user_segment, insights>>

\* ------------------------------------------------------------------ bounds
MaxRows == 3
MaxFilterRows == 2

\* ------------------------------------------------------------ cell values
\* A missing text cell (pandas NaN in an object column; None of a select box).
Null == "NULL"
\* A missing numeric cell (pandas NaN in a numeric column).
NaN == -1
\* A value no step has assigned yet.
None == [none |-> TRUE]
Unset == "UNSET"

\* The mean of no values (pandas: NaN) and the literal 0 of the else branches.
NaNMean == [num |-> 0, den |-> 0]
Zero == [num |-> 0, den |-> 1]

\* --------------------------------------------------- Purchase_Amount cells
DigitChars == <<"0", "1", "2", "3", "4", "5", "6", "7", "8", "9">>
IsDigit(c) == \E i \in 1..Len(DigitChars) : DigitChars[i] = c
DigitVal(c) == (CHOOSE i \in 1..Len(DigitChars) : DigitChars[i] = c) - 1

\* .replace('[\$,]', '', regex=True): every "$" and "," of a text cell goes.
NotCurrencyChar(c) == c \notin {"$", ","}
StripCurrency(s) == SelectSeq(s, NotCurrencyChar)

\* .astype(float) of a text cell: digit strings parse, anything else raises.
RECURSIVE ToFloat(_)
ToFloat(s) ==
    IF Len(s) = 0 THEN 0
    ELSE 10 * ToFloat(SubSeq(s, 1, Len(s) - 1)) + DigitVal(s[Len(s)])

Parses(s) == Len(s) > 0 /\ \A i \in 1..Len(s) : IsDigit(s[i])

\* A raw cell is a text (sequence of characters); the empty field is read as
\* NaN by read_csv and stays NaN through replace and astype.
Malformed(raw) == raw # <<>> /\ ~Parses(StripCurrency(raw))
NormalizeAmount(raw) == IF raw = <<>> THEN NaN ELSE ToFloat(StripCurrency(raw))

\* --------------------------------------------------------- series helpers
Column(rows, col) == [i \in 1..Len(rows) |-> rows[i][col]]

RECURSIVE SumSeq(_)
SumSeq(s) == IF Len(s) = 0 THEN 0 ELSE s[1] + SumSeq(Tail(s))

IsNumber(x) == x # NaN
\* Series.sum(): NaN cells are skipped, the sum of nothing is 0.
SeriesSum(s) == SumSeq(SelectSeq(s, IsNumber))
\* Series.mean(): NaN cells are skipped, the mean of nothing is NaN.
SeriesMean(s) ==
    LET v == SelectSeq(s, IsNumber)
    IN  IF Len(v) = 0 THEN NaNMean ELSE [num |-> SumSeq(v), den |-> Len(v)]

\* a > b on floats: false whenever either side is NaN.
Greater(a, b) == a.den > 0 /\ b.den > 0 /\ a.num * b.den > b.num * a.den

\* ------------------------------------------------------------- the schema
AllColumns == {"Customer_ID", "Age", "Gender", "Income_Level", "Purchase_Channel",
               "Purchase_Category", "Purchase_Amount", "Frequency_of_Purchase",
               "Product_Category", "Purchase_Frequency"}

\* Text labels in the order Python's sorted() gives them.
Alphabetical == <<"Apparel", "Electronics", "F", "High", "Low", "M", "Online", "Store">>
Rank(label) == CHOOSE i \in 1..Len(Alphabetical) : Alphabetical[i] = label

Has(col) == col \in columns

\* ------------------------------------------------------------ LOAD DATA
\* load_data: st.error and None when the file is missing, else the table.
NotFoundMessage ==
    [kind |-> "error", text |-> "CSV file not found: ecommerce_consumer_behavior.csv"]

\* Variant: a missing file yields an empty table instead of None.
load_data_empty_table == IF fileExists THEN [rows |-> csv] ELSE [rows |-> <<>>]

load_data == IF fileExists THEN [rows |-> csv] ELSE None

\* if df is None: st.stop()
AfterLoad(d) == IF d = None THEN "stopped" ELSE "normalize"

LoadData ==
    /\ pc = "load_data"
    /\ df' = load_data
    /\ messages' = IF fileExists THEN messages ELSE messages \cup {NotFoundMessage}
    /\ pc' = AfterLoad(df')
    /\ UNCHANGED <<fileExists, csv, columns, fault, selection, filtered_df, kpi,
                   category_rev, profile, user_segment, insights>>

\* The Purchase_Amount conversion of lines 62-67.  astype(float) raises
\* ValueError at the first cell it cannot parse; nothing catches it.
AmountsMalformed(rows) == \E i \in 1..Len(rows) : Malformed(rows[i].Purchase_Amount)

NormalizeRows(rows) ==
    [i \in 1..Len(rows) |->
        [rows[i] EXCEPT !.Purchase_Amount = NormalizeAmount(rows[i].Purchase_Amount)]]

Normalize ==
    /\ pc = "normalize"
    /\ IF Has("Purchase_Amount") /\ AmountsMalformed(df.rows)
       THEN /\ fault' = "ValueError"
            /\ pc' = "fault"
            /\ df' = df
       ELSE /\ fault' = fault
            /\ pc' = "filters"
            /\ df' = IF Has("Purchase_Amount") THEN [rows |-> NormalizeRows(df.rows)] ELSE df
    /\ UNCHANGED <<fileExists, csv, columns, messages, selection, filtered_df, kpi,
                   category_rev, profile, user_segment, insights>>

\* ------------------------------------------------------- SIDEBAR FILTERS
FilterColumns == {"Purchase_Channel", "Purchase_Category", "Gender", "Income_Level"}

\* get_options: the non-missing values of a column, nothing for an absent one.
get_options(col_name) ==
    IF Has(col_name)
    THEN {df.rows[i][col_name] : i \in 1..Len(df.rows)} \ {Null}
    ELSE {}

\* Variant: the isin mask is applied without the "if selected" guard.
ApplyFilterUnguarded(rows, col, selected) ==
    LET Keep(r) == r[col] \in selected
    IN  SelectSeq(rows, Keep)

\* Variant: the cell is compared with the selection as a whole instead of isin.
ApplyFilterEquals(rows, col, selected) ==
    LET Keep(r) == selected = {r[col]}
    IN  IF selected # {} THEN SelectSeq(rows, Keep) ELSE rows

\* if selected: filtered_df = filtered_df[filtered_df[col].isin(selected)]
ApplyFilter(rows, col, selected) ==
    LET Keep(r) == r[col] \in selected
    IN  IF selected # {} THEN SelectSeq(rows, Keep) ELSE rows

FilterRows(rows, sel) ==
    ApplyFilter(
        ApplyFilter(
            ApplyFilter(
                ApplyFilter(rows, "Purchase_Channel", sel["Purchase_Channel"]),
                "Purchase_Category", sel["Purchase_Category"]),
            "Gender", sel["Gender"]),
        "Income_Level", sel["Income_Level"])

\* What the four multiselects can return: any subset of their options.
Selections ==
    {[Purchase_Channel |-> ch, Purchase_Category |-> ca, Gender |-> ge, Income_Level |-> inc] :
        ch \in SUBSET get_options("Purchase_Channel"),
        ca \in SUBSET get_options("Purchase_Category"),
        ge \in SUBSET get_options("Gender"),
        inc \in SUBSET get_options("Income_Level")}

Filters ==
    /\ pc = "filters"
    /\ \E sel \in Selections :
          /\ selection' = sel
          /\ filtered_df' = [rows |-> FilterRows(df.rows, sel)]
    /\ pc' = "kpi"
    /\ UNCHANGED <<fileExists, csv, columns, fault, messages, df, kpi, category_rev,
                   profile, user_segment, insights>>

\* ------------------------------------------------------------- KPI CARDS
total_revenue(rows) ==
    IF Has("Purchase_Amount") THEN SeriesSum(Column(rows, "Purchase_Amount")) ELSE 0

avg_purchase(rows) ==
    IF Has("Purchase_Amount") THEN SeriesMean(Column(rows, "Purchase_Amount")) ELSE Zero

num_customers(rows) ==
    IF Has("Customer_ID")
    THEN Cardinality({rows[i].Customer_ID : i \in 1..Len(rows)} \ {NaN})
    ELSE Len(rows)

avg_frequency(rows) ==
    IF Has("Frequency_of_Purchase")
    THEN SeriesMean(Column(rows, "Frequency_of_Purchase"))
    ELSE Zero

KpiCards ==
    /\ pc = "kpi"
    /\ kpi' = [total_revenue |-> total_revenue(filtered_df.rows),
               num_customers |-> num_customers(filtered_df.rows),
               avg_purchase  |-> avg_purchase(filtered_df.rows),
               avg_frequency |-> avg_frequency(filtered_df.rows)]
    /\ pc' = "overview"
    /\ UNCHANGED <<fileExists, csv, columns, fault, messages, df, selection, filtered_df,
                   category_rev, profile, user_segment, insights>>

\* ---------------------------------------------------------- TAB OVERVIEW
\* groupby("Purchase_Category"): one group per non-missing key; rows whose key
\* is missing belong to no group.
GroupKeys(rows, col) == {rows[i][col] : i \in 1..Len(rows)} \ {Null}

\* Variant: the group's first amount instead of the group's sum.
GroupFirst(rows, key) ==
    LET InGroup(r) == r.Purchase_Category = key
        amounts == SelectSeq(Column(SelectSeq(rows, InGroup), "Purchase_Amount"), IsNumber)
    IN  IF Len(amounts) = 0 THEN 0 ELSE amounts[1]

GroupSum(rows, key) ==
    LET InGroup(r) == r.Purchase_Category = key
    IN  SeriesSum(Column(SelectSeq(rows, InGroup), "Purchase_Amount"))

\* sort_values("Purchase_Amount", ascending=False) over the key-ordered groups:
\* larger sums first, equal sums in key order.
Before(a, b) ==
    \/ a.Purchase_Amount > b.Purchase_Amount
    \/ a.Purchase_Amount = b.Purchase_Amount /\ Rank(a.Purchase_Category) < Rank(b.Purchase_Category)

RECURSIVE SortGroups(_)
SortGroups(groups) ==
    IF groups = {} THEN <<>>
    ELSE LET first == CHOOSE g \in groups : \A h \in groups \ {g} : Before(g, h)
         IN  <<first>> \o SortGroups(groups \ {first})

RevenueByCategory(rows) ==
    SortGroups({[Purchase_Category |-> k, Purchase_Amount |-> GroupSum(rows, k)] :
                   k \in GroupKeys(rows, "Purchase_Category")})

Overview ==
    /\ pc = "overview"
    /\ category_rev' = IF Has("Purchase_Category") /\ Has("Purchase_Amount")
                       THEN [groups |-> RevenueByCategory(filtered_df.rows)]
                       ELSE category_rev
    /\ pc' = "profile"
    /\ UNCHANGED <<fileExists, csv, columns, fault, messages, df, selection, filtered_df,
                   kpi, profile, user_segment, insights>>

\* ------------------------------------------- PERSONAL SHOPPING INSIGHTS
\* The four select boxes read these columns without checking for them.
ProfileColumns == {"Age", "Income_Level", "Purchase_Channel", "Product_Category"}
TextProfileColumns == {"Income_Level", "Purchase_Channel", "Product_Category"}

\* sorted(df[col].unique()) raises TypeError when a text column holds both
\* labels and NaN (str and float do not compare).
MixedMissing(rows, col) ==
    /\ \E i \in 1..Len(rows) : rows[i][col] = Null
    /\ \E i \in 1..Len(rows) : rows[i][col] # Null

\* The options of a select box: the distinct values, the missing one included;
\* a select box with no options returns None.  category_input is read by no
\* later line, so only the faults of building its select box are kept.
SelectOptions(rows, col, none) ==
    IF Len(rows) = 0 THEN {none} ELSE {rows[i][col] : i \in 1..Len(rows)}

SelectBoxes ==
    /\ pc = "profile"
    /\ IF ~(ProfileColumns \subseteq columns)
       THEN /\ fault' = "KeyError"
            /\ pc' = "fault"
            /\ profile' = profile
       ELSE IF \E c \in TextProfileColumns : MixedMissing(df.rows, c)
       THEN /\ fault' = "TypeError"
            /\ pc' = "fault"
            /\ profile' = profile
       ELSE /\ fault' = fault
            /\ \E a \in SelectOptions(df.rows, "Age", NaN),
                  inc \in SelectOptions(df.rows, "Income_Level", Null),
                  ch \in SelectOptions(df.rows, "Purchase_Channel", Null),
                  clicked \in BOOLEAN :
                  /\ profile' = [age_input |-> a, income_input |-> inc,
                                 channel_input |-> ch, clicked |-> clicked]
                  /\ pc' = IF clicked THEN "insights" ELSE "done"
    /\ UNCHANGED <<fileExists, csv, columns, messages, df, selection, filtered_df, kpi,
                   category_rev, user_segment, insights>>

\* Variant: the channel is left out of the exact match.
ExactMatchNoChannel(r, p) ==
    /\ r.Age # NaN /\ r.Age = p.age_input
    /\ r.Income_Level # Null /\ r.Income_Level = p.income_input

\* == on a column: a missing cell equals nothing, not even a missing input.
ExactMatch(r, p) ==
    /\ r.Age # NaN /\ r.Age = p.age_input
    /\ r.Income_Level # Null /\ r.Income_Level = p.income_input
    /\ r.Purchase_Channel # Null /\ r.Purchase_Channel = p.channel_input

IncomeMatch(r, p) == r.Income_Level # Null /\ r.Income_Level = p.income_input

ExactRows(rows, p) == LET Test(r) == ExactMatch(r, p) IN SelectSeq(rows, Test)
RelaxedRows(rows, p) == LET Test(r) == IncomeMatch(r, p) IN SelectSeq(rows, Test)

\* user_segment after lines 236-244.
Segment(rows, p) ==
    IF Len(ExactRows(rows, p)) = 0 THEN RelaxedRows(rows, p) ELSE ExactRows(rows, p)

\* Series.mode(): the non-missing values with the largest count, sorted.
Count(rows, col, v) == Cardinality({i \in 1..Len(rows) : rows[i][col] = v})

Modes(rows, col) ==
    LET vals == {rows[i][col] : i \in 1..Len(rows)} \ {Null}
    IN  {v \in vals : \A w \in vals : Count(rows, col, w) <= Count(rows, col, v)}

\* Variant: the last of the sorted modes.
ModeLast(modes) == CHOOSE v \in modes : \A w \in modes : Rank(w) <= Rank(v)

\* mode()[0]: the first of the sorted modes.
ModeFirst(modes) == CHOOSE v \in modes : \A w \in modes : Rank(v) <= Rank(w)

HighValueFrequent == "high-value frequent shopper"
Premium == "premium purchases"
Frequent == "frequent shopper"
ValueSeeking == "seasonal deals"

\* Variant: >= in place of > in the chain.
RecommendNonStrict(spending, frequency, overall_spending, overall_frequency) ==
    LET AtLeast(a, b) == a.den > 0 /\ b.den > 0 /\ a.num * b.den >= b.num * a.den
    IN  IF AtLeast(spending, overall_spending) /\ AtLeast(frequency, overall_frequency)
        THEN HighValueFrequent
        ELSE IF AtLeast(spending, overall_spending) THEN Premium
        ELSE IF AtLeast(frequency, overall_frequency) THEN Frequent
        ELSE ValueSeeking

\* The if / elif chain of lines 274-281.
Recommend(spending, frequency, overall_spending, overall_frequency) ==
    IF Greater(spending, overall_spending) /\ Greater(frequency, overall_frequency)
    THEN HighValueFrequent
    ELSE IF Greater(spending, overall_spending) THEN Premium
    ELSE IF Greater(frequency, overall_frequency) THEN Frequent
    ELSE ValueSeeking

NoExactMatchWarning ==
    [kind |-> "warning", text |-> "No exact match - showing closest matches instead."]
InsightsSuccess == [kind |-> "success", text |-> "Personalized Insights Just for You"]
RecommendationInfo(rec) == [kind |-> "info", text |-> rec]

NoInsights == [avg_spending |-> None, top_category |-> Unset, avg_frequency |-> None,
               overall_avg_spending |-> None, overall_avg_frequency |-> None,
               rec |-> Unset]

GetMyInsights ==
    /\ pc = "insights"
    /\ LET seg == Segment(df.rows, profile)
           warned == IF Len(ExactRows(df.rows, profile)) = 0
                     THEN messages \cup {NoExactMatchWarning} ELSE messages
           spending == SeriesMean(Column(seg, "Purchase_Amount"))
           modes == Modes(seg, "Product_Category")
           frequency == SeriesMean(Column(seg, "Purchase_Frequency"))
           overall_spending == SeriesMean(Column(df.rows, "Purchase_Amount"))
           overall_frequency == SeriesMean(Column(df.rows, "Purchase_Frequency"))
           rec == Recommend(spending, frequency, overall_spending, overall_frequency)
       IN  /\ user_segment' = [rows |-> seg]
           /\ IF ~Has("Purchase_Amount")
              THEN \* line 246: KeyError
                   /\ insights' = insights
                   /\ messages' = warned
                   /\ fault' = "KeyError"
                   /\ pc' = "fault"
              ELSE IF modes = {}
              THEN \* line 247: mode() is empty and [0] raises
                   /\ insights' = [insights EXCEPT !.avg_spending = spending]
                   /\ messages' = warned
                   /\ fault' = "KeyError"
                   /\ pc' = "fault"
              ELSE IF ~Has("Purchase_Frequency")
              THEN \* line 248: KeyError
                   /\ insights' = [insights EXCEPT !.avg_spending = spending,
                                                   !.top_category = ModeFirst(modes)]
                   /\ messages' = warned
                   /\ fault' = "KeyError"
                   /\ pc' = "fault"
              ELSE /\ insights' = [avg_spending |-> spending,
                                   top_category |-> ModeFirst(modes),
                                   avg_frequency |-> frequency,
                                   overall_avg_spending |-> overall_spending,
                                   overall_avg_frequency |-> overall_frequency,
                                   rec |-> rec]
                   /\ messages' = warned \cup {InsightsSuccess, RecommendationInfo(rec)}
                   /\ fault' = fault
                   /\ pc' = "done"
    /\ UNCHANGED <<fileExists, csv, columns, df, selection, filtered_df, kpi,
                   category_rev, profile>>

Next ==
    \/ LoadData
    \/ Normalize
    \/ Filters
    \/ KpiCards
    \/ Overview
    \/ SelectBoxes
    \/ GetMyInsights

\* ------------------------------------------------------------ the inputs
Row(cid, age, gender, income, channel, pcat, amount, fop, prodcat, pfreq) ==
    [Customer_ID |-> cid, Age |-> age, Gender |-> gender, Income_Level |-> income,
     Purchase_Channel |-> channel, Purchase_Category |-> pcat,
     Purchase_Amount |-> amount, Frequency_of_Purchase |-> fop,
     Product_Category |-> prodcat, Purchase_Frequency |-> pfreq]

Tables(pool, n) == UNION {[1..k -> pool] : k \in 0..n}

\* Rows that differ in the four filterable columns, with a currency-formatted
\* amount, a grouped amount, a missing category, a missing amount and an
\* amount that does not parse.
DashboardRows ==
    { Row(1, 30, "F", "High", "Online", "Electronics", <<"$", "1">>, 1, "Electronics", 1),
      Row(2, 30, "M", "Low", "Store", "Apparel", <<"2">>, 2, "Apparel", 2),
      Row(3, 30, "F", "Low", "Online", "Apparel", <<"$", "1", ",", "0">>, 1, "Apparel", 1),
      Row(1, 30, "M", "High", "Store", Null, <<"2">>, 2, "Electronics", 2),
      Row(2, 30, "M", "High", "Online", "Electronics", <<>>, NaN, "Electronics", 1),
      Row(3, 30, "F", "Low", "Store", "Apparel", <<"x">>, 1, "Apparel", 1) }

DashboardSchemas == {AllColumns, AllColumns \ {"Gender"}, AllColumns \ {"Purchase_Amount"},
                     AllColumns \ {"Product_Category"}}

\* Rows that differ in the three match keys and in the statistics of the
\* insights handler, with a missing product category and a missing income.
InsightRows ==
    { Row(1, 25, "F", "High", "Online", "Electronics", <<"3">>, 1, "Electronics", 3),
      Row(2, 30, "F", "High", "Store", "Electronics", <<"1">>, 1, "Apparel", 1),
      Row(3, 30, "F", "Low", "Online", "Electronics", <<"$", "3">>, 1, "Apparel", 1),
      Row(4, 25, "F", "Low", "Store", "Electronics", <<"1">>, 1, "Electronics", 3),
      Row(5, 25, "F", "High", "Online", "Electronics", <<"2">>, 1, Null, 2),
      Row(6, 30, "F", Null, "Store", "Electronics", <<"2">>, 1, "Apparel", 2) }

InsightSchemas == {AllColumns, AllColumns \ {"Purchase_Frequency"}}

InitRun ==
    /\ pc = "load_data"
    /\ fault = "none"
    /\ messages = {}
    /\ df = None
    /\ selection = None
    /\ filtered_df = None
    /\ kpi = None
    /\ category_rev = None
    /\ profile = None
    /\ user_segment = None
    /\ insights = NoInsights

Init ==
    /\ fileExists \in BOOLEAN
    /\ csv \in Tables(DashboardRows, MaxFilterRows)
    /\ columns \in DashboardSchemas
    /\ InitRun

InitInsights ==
    /\ fileExists \in BOOLEAN
    /\ csv \in Tables(InsightRows, MaxRows)
    /\ columns \in InsightSchemas
    /\ InitRun

Spec == Init /\ [][Next]_vars
SpecInsights == InitInsights /\ [][Next]_vars

\* ============================================================ properties
\* The rows of a table at the indexes K, in table order.
RowsAt(rows, K) ==
    [j \in 1..Cardinality(K) |->
        rows[CHOOSE i \in K : Cardinality({k \in K : k < i}) = j - 1]]

Present(v) == v # Null

\* The indexes of the rows that match the profile on age, income and channel,
\* and on income alone.
ExactIndexes ==
    {i \in 1..Len(df.rows) :
        /\ Present(df.rows[i].Income_Level) /\ df.rows[i].Income_Level = profile.income_input
        /\ df.rows[i].Age = profile.age_input
        /\ df.rows[i].Purchase_Channel = profile.channel_input}

IncomeIndexes ==
    {i \in 1..Len(df.rows) :
        Present(df.rows[i].Income_Level) /\ df.rows[i].Income_Level = profile.income_input}

HandlerRan == user_segment # None

\* C1: when no row matches the profile exactly and none matches its income
\* level, the handler ends without a fault, computes no segment statistic and
\* tells the user that no insight is available.
NoDataOutcome ==
    (HandlerRan /\ ExactIndexes = {} /\ IncomeIndexes = {}) =>
        /\ fault = "none"
        /\ insights = NoInsights
        /\ InsightsSuccess \notin messages
        /\ \E m \in messages : m.kind \in {"warning", "info"} /\ m # NoExactMatchWarning

\* C2: the statistics are computed over the exact matches when there are any
\* (and no approximate-match notice is shown), else over all rows of the
\* income level when there are any (never an empty segment), with the notice.
SegmentIsExactElseIncome ==
    HandlerRan =>
        /\ ExactIndexes # {} =>
              /\ user_segment.rows = RowsAt(df.rows, ExactIndexes)
              /\ NoExactMatchWarning \notin messages
        /\ (ExactIndexes = {} /\ IncomeIndexes # {}) =>
              /\ user_segment.rows = RowsAt(df.rows, IncomeIndexes)
              /\ Len(user_segment.rows) > 0
              /\ NoExactMatchWarning \in messages

RelaxedMatchReached ==
    /\ HandlerRan
    /\ ExactIndexes = {}
    /\ IncomeIndexes # {}
    /\ Cardinality(IncomeIndexes) < Len(df.rows)
    /\ pc = "done"

\* C3: the recommendation is the first that applies of: mean amount and mean
\* frequency of the segment both above the means of the whole table; the mean
\* amount above; the mean frequency above; otherwise the value-seeking default
\* (equality with the baseline included).  Exactly one label is shown.
SegmentAbove(col) ==
    LET seg == SelectSeq(Column(user_segment.rows, col), IsNumber)
        all == SelectSeq(Column(df.rows, col), IsNumber)
    IN  /\ Len(seg) > 0
        /\ Len(all) > 0
        /\ SumSeq(seg) * Len(all) > SumSeq(all) * Len(seg)

Allowed(r, sel) == \A c \in FilterColumns : sel[c] = {} \/ r[c] \in sel[c]

FilterIsConjunction ==
    filtered_df # None =>
        /\ filtered_df.rows =
              RowsAt(df.rows, {i \in 1..Len(df.rows) : Allowed(df.rows[i], selection)})
        /\ \A c \in FilterColumns \ columns : selection[c] = {}
        /\ pc = "kpi" => fault = "none"

\* Two attributes are filtered, one left open, and the filters keep some rows
\* and drop some.
ConjunctiveFilterReached ==
    /\ filtered_df # None
    /\ selection["Purchase_Channel"] # {}
    /\ selection["Income_Level"] # {}
    /\ selection["Purchase_Category"] = {}
    /\ Len(filtered_df.rows) > 0
    /\ Len(filtered_df.rows) < Len(ApplyFilter(df.rows, "Purchase_Channel", selection["Purchase_Channel"]))
    /\ Len(filtered_df.rows) < Len(ApplyFilter(df.rows, "Income_Level", selection["Income_Level"]))

\* C5 as stated: adding a value to any attribute's allowed set, an empty one
\* included, never decreases the number of filtered rows.
FilterMonotone ==
    filtered_df # None =>
        \A c \in FilterColumns : \A v \in get_options(c) :
            Len(FilterRows(df.rows, [selection EXCEPT ![c] = @ \cup {v}]))
                >= Len(filtered_df.rows)

\* C5 amended: adding a value to a non-empty allowed set never decreases the
\* number of filtered rows.
FilterMonotoneNonEmpty ==
    filtered_df # None =>
        \A c \in FilterColumns : \A v \in get_options(c) :
            selection[c] # {} =>
                Len(FilterRows(df.rows, [selection EXCEPT ![c] = @ \cup {v}]))
                    >= Len(filtered_df.rows)

\* A value can be added to a non-empty allowed set and brings rows back.
FilterGrowsReached ==
    /\ filtered_df # None
    /\ \E c \in FilterColumns : \E v \in get_options(c) \ selection[c] :
          /\ selection[c] # {}
          /\ Len(FilterRows(df.rows, [selection EXCEPT ![c] = @ \cup {v}]))
                > Len(filtered_df.rows)

\* C6 as stated: the per-category revenues add up to the total revenue KPI.
GroupTotal == SumSeq(Column(category_rev.groups, "Purchase_Amount"))

CategoryRevenueIsTotal ==
    category_rev # None => GroupTotal = kpi.total_revenue

\* C6 amended: the per-category revenues add up to the revenue of the rows of
\* the view that have a category.
HasCategory(r) == r.Purchase_Category # Null

CategoryRevenueIsCategorisedTotal ==
    category_rev # None =>
        GroupTotal =
            SeriesSum(Column(SelectSeq(filtered_df.rows, HasCategory), "Purchase_Amount"))

\* The view holds a row without a category and with an amount, and a group.
UncategorisedRevenueReached ==
    /\ category_rev # None
    /\ Len(category_rev.groups) > 0
    /\ GroupTotal > 0
    /\ \E i \in 1..Len(filtered_df.rows) :
          /\ filtered_df.rows[i].Purchase_Category = Null
          /\ filtered_df.rows[i].Purchase_Amount > 0

\* C7: over a view without rows the total revenue, the average purchase
\* amount and the average purchase frequency are 0.
EmptyViewKpisAreZero ==
    (kpi # None /\ Len(filtered_df.rows) = 0) =>
        /\ kpi.total_revenue = 0
        /\ kpi.avg_purchase = Zero
        /\ kpi.avg_frequency = Zero
        /\ fault = "none"

\* C8: an amount that does not parse is reported for its row, the run goes on
\* to the filters, and the amount is not counted as 0.
MalformedAmountIsRowLocal ==
    (df # None /\ Has("Purchase_Amount") /\ AmountsMalformed(csv) /\ pc # "normalize") =>
        /\ fault = "none"
        /\ pc # "fault"
        /\ \A i \in 1..Len(df.rows) :
              Malformed(csv[i].Purchase_Amount) => df.rows[i].Purchase_Amount # 0

Occurrences(v) ==
    Cardinality({i \in 1..Len(user_segment.rows) : user_segment.rows[i].Product_Category = v})

FirstIndex(v) ==
    CHOOSE i \in 1..Len(user_segment.rows) :
        /\ user_segment.rows[i].Product_Category = v
        /\ \A k \in 1..(i - 1) : user_segment.rows[k].Product_Category # v

SegmentCategories ==
    {user_segment.rows[i].Product_Category : i \in 1..Len(user_segment.rows)} \ {Null}

TopCategoryFirstMet ==
    insights.top_category # Unset =>
        /\ insights.top_category \in SegmentCategories
        /\ \A w \in SegmentCategories : Occurrences(w) <= Occurrences(insights.top_category)
        /\ \A w \in SegmentCategories :
              Occurrences(w) = Occurrences(insights.top_category)
                  => FirstIndex(insights.top_category) <= FirstIndex(w)

\* C10 amended: the reported category has the largest count in the segment,
\* and of the values with that count it is the first in sorted order.
TopCategoryFirstSorted ==
    insights.top_category # Unset =>
        /\ insights.top_category \in SegmentCategories
        /\ \A w \in SegmentCategories : Occurrences(w) <= Occurrences(insights.top_category)
        /\ \A w \in SegmentCategories :
              Occurrences(w) = Occurrences(insights.top_category)
                  => Rank(insights.top_category) <= Rank(w)

\* Two categories tie in the segment and the reported one is not the one met
\* first.
TieReached ==
    /\ insights.top_category # Unset
    /\ \E w \in SegmentCategories \ {insights.top_category} :
          /\ Occurrences(w) = Occurrences(insights.top_category)
          /\ FirstIndex(w) < FirstIndex(insights.top_category)
====
